---------------------------- MODULE Spec2Model ----------------------------
(***************************************************************************)
(* RFC 3161 Time-Stamp Protocol structures of src/main.rs and the DER      *)
(* reader / writer that #[derive(Asn1Read, Asn1Write)] generates for them. *)
(*                                                                         *)
(* Bytes are naturals 0..255, buffers are sequences of bytes.  Unsigned    *)
(* integers (u8, u32, u64) are kept as their big-endian magnitude bytes    *)
(* without leading zero bytes (zero is <<0>>), so that the width of the    *)
(* Rust type is a bound on the length of the magnitude and 64-bit values   *)
(* are represented exactly.  Option<T> is <<>> (None) or <<v>> (Some(v)).  *)
(* A parse result is [err, val, rest]: err = "" on success, val = <<v>>.   *)
(* Tlv<'a> is the tag byte followed by the value bytes.                    *)
(***************************************************************************)
EXTENDS Integers, Sequences, FiniteSets, TLC

VARIABLES ty, x, buf, origin, pc, res, steps, out

vars == <<ty, x, buf, origin, pc, res, steps, out>>

(***************************************************************************)
(* Bounds of the exploration.                                              *)
(***************************************************************************)
MaxTrailing == 2

MaxContextTag == 9

(***************************************************************************)
(* Results of the reader.                                                  *)
(***************************************************************************)
Ok(v, rest) == [err |-> "", val |-> <<v>>, rest |-> rest]

Err(kind) == [err |-> kind, val |-> <<>>, rest |-> <<>>]

Drop(s, n) == SubSeq(s, n + 1, Len(s))

Take(s, n) == SubSeq(s, 1, n)

(***************************************************************************)
(* Parser::read_length.  Short form below 0x80; long form of 1..4 bytes,   *)
(* no leading zero byte, and never for a length below 0x80.  0x80 alone    *)
(* (indefinite length) is rejected.  The length is capped while it is      *)
(* accumulated: any length above the cap exceeds every buffer explored.    *)
(***************************************************************************)
RECURSIVE BigEndian(_)
BigEndian(bytes) ==
    IF bytes = <<>> THEN 0
    ELSE LET hi == BigEndian(Take(bytes, Len(bytes) - 1))
             v  == IF hi >= 65536 THEN 65536 * 256 ELSE hi * 256 + bytes[Len(bytes)]
         IN  v

read_length(data) ==
    IF data = <<>> THEN [err |-> "ShortData", len |-> 0, rest |-> <<>>]
    ELSE LET b == data[1] IN
         IF b < 128 THEN [err |-> "", len |-> b, rest |-> Tail(data)]
         ELSE LET n == b - 128 IN
              IF n > 4 THEN [err |-> "InvalidValue", len |-> 0, rest |-> <<>>]
              ELSE IF Len(data) - 1 < n
                   THEN [err |-> IF Len(data) > 1 /\ data[2] = 0
                                 THEN "InvalidValue" ELSE "ShortData",
                         len |-> 0, rest |-> <<>>]
              ELSE IF n > 0 /\ data[2] = 0
                   THEN [err |-> "InvalidValue", len |-> 0, rest |-> <<>>]
              ELSE LET l == BigEndian(SubSeq(data, 2, n + 1)) IN
                   IF l < 128 THEN [err |-> "InvalidValue", len |-> 0, rest |-> <<>>]
                   ELSE [err |-> "", len |-> l, rest |-> Drop(data, n + 1)]

(***************************************************************************)
(* Parser::read_tlv: one tag byte, a length, and that many value bytes.    *)
(* Only low tag numbers exist in the schema; the high-tag-number form      *)
(* (low five bits all set) is not a tag of any declared field and is       *)
(* rejected.  Result: [err, tag, data, rest].                              *)
(***************************************************************************)
NoTlv(kind) == [err |-> kind, tag |-> 0, data |-> <<>>, rest |-> <<>>]

tlv_of(tag, l) ==
    IF l.err # "" THEN NoTlv(l.err)
    ELSE IF l.len > Len(l.rest) THEN NoTlv("ShortData")
    ELSE [err |-> "", tag |-> tag, data |-> Take(l.rest, l.len), rest |-> Drop(l.rest, l.len)]

read_tlv(data) ==
    IF data = <<>> THEN NoTlv("ShortData")
    ELSE IF data[1] % 32 = 31 THEN NoTlv("InvalidValue")
    ELSE tlv_of(data[1], read_length(Tail(data)))

(***************************************************************************)
(* Writer::write_tlv: the tag, the minimal length, the value.              *)
(***************************************************************************)
write_length(n) ==
    IF n < 128 THEN <<n>>
    ELSE IF n < 256 THEN <<129, n>>
    ELSE <<130, (n \div 256), (n % 256)>>

write_tlv(tag, data) == <<tag>> \o write_length(Len(data)) \o data

(***************************************************************************)
(* Tlv<'a>: the tag and the value bytes of any element, kept as the tag    *)
(* followed by the value bytes.                                            *)
(***************************************************************************)
Tlv(tag, data) == <<tag>> \o data

TlvTag(v) == v[1]

TlvData(v) == Tail(v)


(***************************************************************************)
(* Unsigned integers: u8, u32 and u64 fields.  validate_integer rejects    *)
(* the empty and the non-minimal encodings and, for an unsigned type, a    *)
(* set sign bit; a magnitude wider than the Rust type is IntegerOverflow.  *)
(***************************************************************************)
WidthOf(name) == CASE name = "u8" -> 1 [] name = "u32" -> 4 [] name = "u64" -> 8

validate_integer(data) ==
    /\ data # <<>>
    /\ ~(Len(data) > 1 /\ data[1] = 255 /\ data[2] >= 128)
    /\ ~(Len(data) > 1 /\ data[1] = 0 /\ data[2] < 128)
    /\ data[1] < 128

parse_uint(width, data) ==
    IF ~validate_integer(data) THEN Err("InvalidValue")
    ELSE LET mag == IF Len(data) > 1 /\ data[1] = 0 THEN Tail(data) ELSE data IN
         IF Len(mag) > width THEN Err("IntegerOverflow") ELSE Ok(mag, <<>>)

write_uint(mag) == IF mag[1] >= 128 THEN <<0>> \o mag ELSE mag

(***************************************************************************)
(* bool: exactly 0x00 or 0xFF.                                             *)
(***************************************************************************)
parse_bool_lenient(data) ==
    IF data = <<0>> THEN Ok(FALSE, <<>>)
    ELSE IF Len(data) = 1 THEN Ok(TRUE, <<>>)
    ELSE Err("InvalidValue")

parse_bool(data) ==
    IF data = <<0>> THEN Ok(FALSE, <<>>)
    ELSE IF data = <<255>> THEN Ok(TRUE, <<>>)
    ELSE Err("InvalidValue")

write_bool(v) == IF v THEN <<255>> ELSE <<0>>

(***************************************************************************)
(* &[u8] (OCTET STRING) and IA5String (bytes below 128).                   *)
(***************************************************************************)
parse_octets(data) == Ok(data, <<>>)

parse_ia5(data) ==
    IF \A i \in 1..Len(data) : data[i] < 128 THEN Ok(data, <<>>) ELSE Err("InvalidValue")

(***************************************************************************)
(* ObjectIdentifier<'a> keeps the validated DER bytes: a non-empty         *)
(* sequence of base-128 arcs, each minimal and of at most four bytes.      *)
(***************************************************************************)
RECURSIVE ValidArcs(_, _)
ValidArcs(data, pos) ==
    IF data = <<>> THEN pos = 0
    ELSE IF pos = 0 /\ data[1] = 128 THEN FALSE
    ELSE IF data[1] >= 128
         THEN IF pos >= 3 THEN FALSE ELSE ValidArcs(Tail(data), pos + 1)
    ELSE ValidArcs(Tail(data), 0)

parse_oid(data) ==
    IF data # <<>> /\ ValidArcs(data, 0) THEN Ok(data, <<>>) ELSE Err("InvalidValue")

(***************************************************************************)
(* GeneralizedTime: the fifteen characters YYYYMMDDHHMMSSZ of a valid UTC  *)
(* date and time.  The value is the date and time, not the text.           *)
(***************************************************************************)
IsDigit(b) == b >= 48 /\ b <= 57

Num2(s, i) == (s[i] - 48) * 10 + (s[i + 1] - 48)

Digits2(n) == <<48 + (n \div 10), 48 + (n % 10)>>

DaysIn(year, month) ==
    IF month \in {4, 6, 9, 11} THEN 30
    ELSE IF month = 2
         THEN IF year % 4 = 0 /\ (year % 100 # 0 \/ year % 400 = 0) THEN 29 ELSE 28
    ELSE 31

parse_time(data) ==
    IF Len(data) # 15 \/ data[15] # 90 \/ \E i \in 1..14 : ~IsDigit(data[i])
    THEN Err("InvalidValue")
    ELSE LET t == [year |-> Num2(data, 1) * 100 + Num2(data, 3),
                   month |-> Num2(data, 5), day |-> Num2(data, 7),
                   hour |-> Num2(data, 9), minute |-> Num2(data, 11),
                   second |-> Num2(data, 13)]
         IN  IF /\ t.month \in 1..12
                /\ t.day \in 1..DaysIn(t.year, t.month)
                /\ t.hour < 24 /\ t.minute < 60 /\ t.second < 60
             THEN Ok(t, <<>>) ELSE Err("InvalidValue")

write_time(t) ==
    Digits2(t.year \div 100) \o Digits2(t.year % 100) \o Digits2(t.month)
      \o Digits2(t.day) \o Digits2(t.hour) \o Digits2(t.minute)
      \o Digits2(t.second) \o <<90>>

(***************************************************************************)
(* Type descriptors.  k is the kind of the Rust type: "prim" (a scalar),   *)
(* "struct", "choice" (the enum), "tlv" (Tlv<'a>, any element) and         *)
(* "explicit" (Explicit<'a, T, t>, where n names T).                       *)
(***************************************************************************)
StructNames ==
    {"TimeStampReq", "MessageImprint", "AlgorithmIdentifier", "TimeStampResp",
     "PKIStatusInfo", "ContentInfo", "TSTInfo", "Accuracy"}

Named(name) ==
    [k |-> IF name \in StructNames THEN "struct"
           ELSE IF name = "GeneralName" THEN "choice"
           ELSE IF name = "Tlv" THEN "tlv" ELSE "prim",
     n |-> name, t |-> 0]

Explicit(inner, tag) == [k |-> "explicit", n |-> inner, t |-> tag]

Required(name, type) == [name |-> name, mode |-> "required", type |-> type, dflt |-> FALSE]

Optional(name, type) == [name |-> name, mode |-> "optional", type |-> type, dflt |-> FALSE]

Default(name, type, dflt) == [name |-> name, mode |-> "default", type |-> type, dflt |-> dflt]

(***************************************************************************)
(* The schema: the fields of each struct in declaration order.             *)
(***************************************************************************)
TimeStampReq_default_true ==
    << Required("version", Named("u8")),
       Required("message_imprint", Named("MessageImprint")),
       Optional("req_policy", Named("ObjectIdentifier")),
       Optional("nonce", Named("u64")),
       Default("cert_req", Named("bool"), TRUE) >>

TimeStampReq ==
    << Required("version", Named("u8")),
       Required("message_imprint", Named("MessageImprint")),
       Optional("req_policy", Named("ObjectIdentifier")),
       Optional("nonce", Named("u64")),
       Default("cert_req", Named("bool"), FALSE) >>

MessageImprint ==
    << Required("hash_algorithm", Named("AlgorithmIdentifier")),
       Required("hashed_message", Named("OctetString")) >>

AlgorithmIdentifier ==
    << Required("algorithm", Named("ObjectIdentifier")),
       Required("parameters", Named("Tlv")) >>

TimeStampResp ==
    << Required("status", Named("PKIStatusInfo")),
       Optional("time_stamp_token", Named("ContentInfo")) >>

PKIStatusInfo ==
    << Required("status", Named("u8")),
       Optional("status_string", Named("IA5String")),
       Optional("fail_info", Named("u8")) >>

ContentInfo ==
    << Required("content_type", Named("ObjectIdentifier")),
       Required("content", Explicit("Tlv", 0)) >>

TSTInfo ==
    << Required("version", Named("u8")),
       Optional("policy", Named("ObjectIdentifier")),
       Required("message_imprint", Named("MessageImprint")),
       Required("serial_number", Named("u64")),
       Required("gen_time", Named("GeneralizedTime")),
       Optional("accuracy", Named("Accuracy")),
       Default("ordering", Named("bool"), FALSE),
       Optional("nonce", Named("u64")),
       Optional("tsa", Explicit("GeneralName", 0)),
       Optional("extensions", Explicit("Tlv", 1)) >>

Accuracy ==
    << Optional("seconds", Named("u32")),
       Optional("millis", Named("u32")),
       Optional("micros", Named("u32")) >>

GeneralName_dns_tag_1 ==
    << [variant |-> "OtherName", type |-> Explicit("Tlv", 0)],
       [variant |-> "DNSName", type |-> Explicit("IA5String", 1)],
       [variant |-> "UniformResourceIdentifier", type |-> Explicit("IA5String", 6)],
       [variant |-> "IPAddress", type |-> Explicit("OctetString", 7)],
       [variant |-> "RegisteredID", type |-> Explicit("ObjectIdentifier", 8)] >>

GeneralName ==
    << [variant |-> "OtherName", type |-> Explicit("Tlv", 0)],
       [variant |-> "DNSName", type |-> Explicit("IA5String", 2)],
       [variant |-> "UniformResourceIdentifier", type |-> Explicit("IA5String", 6)],
       [variant |-> "IPAddress", type |-> Explicit("OctetString", 7)],
       [variant |-> "RegisteredID", type |-> Explicit("ObjectIdentifier", 8)] >>

FieldsOf(name) ==
    CASE name = "TimeStampReq" -> TimeStampReq
      [] name = "MessageImprint" -> MessageImprint
      [] name = "AlgorithmIdentifier" -> AlgorithmIdentifier
      [] name = "TimeStampResp" -> TimeStampResp
      [] name = "PKIStatusInfo" -> PKIStatusInfo
      [] name = "ContentInfo" -> ContentInfo
      [] name = "TSTInfo" -> TSTInfo
      [] name = "Accuracy" -> Accuracy

(***************************************************************************)
(* The tag of a type with a single tag: universal for scalars, SEQUENCE    *)
(* for a struct, context-specific constructed for Explicit.                *)
(***************************************************************************)
TagOf(type) ==
    CASE type.k = "struct" -> 48
      [] type.k = "explicit" -> 160 + type.t
      [] type.k = "prim" /\ type.n \in {"u8", "u32", "u64"} -> 2
      [] type.k = "prim" /\ type.n = "bool" -> 1
      [] type.k = "prim" /\ type.n = "OctetString" -> 4
      [] type.k = "prim" /\ type.n = "ObjectIdentifier" -> 6
      [] type.k = "prim" /\ type.n = "IA5String" -> 22
      [] type.k = "prim" /\ type.n = "GeneralizedTime" -> 24

(***************************************************************************)
(* Asn1Readable::can_parse: Tlv takes any tag, the enum the tag of any of  *)
(* its variants, every other type its own tag.                             *)
(***************************************************************************)
can_parse(type, tag) ==
    CASE type.k = "tlv" -> TRUE
      [] type.k = "choice" -> \E i \in 1..Len(GeneralName) : tag = TagOf(GeneralName[i].type)
      [] OTHER -> tag = TagOf(type)

(***************************************************************************)
(* Parser::finish, the end of asn1::parse: bytes left over are ExtraData.  *)
(***************************************************************************)
finish(r) ==
    IF r.err # "" THEN r ELSE IF r.rest # <<>> THEN Err("ExtraData") ELSE r

(***************************************************************************)
(* asn1::from_optional_default: None is the default, Some(default) is an   *)
(* encoded default and an error.                                           *)
(***************************************************************************)
from_optional_default(v, dflt) ==
    IF v = <<>> THEN [err |-> "", val |-> <<dflt>>]
    ELSE IF v[1] = dflt THEN [err |-> "EncodedDefault", val |-> <<>>]
    ELSE [err |-> "", val |-> <<v[1]>>]

(***************************************************************************)
(* The reader.  read_element is Parser::read_element::<T>, read_optional   *)
(* is Option<T>::parse, read_field reads one declared field of a struct    *)
(* and read_fields the fields in declaration order, recording one step per *)
(* field: the tag it peeked, whether the field took the child, the bytes   *)
(* before and after, and the value or the error.                           *)
(***************************************************************************)
RECURSIVE read_element(_, _)
RECURSIVE parse_data(_, _)
RECURSIVE read_fields(_, _, _, _, _)

fields_result(r) == [err |-> r.err, val |-> r.val, rest |-> r.rest]

with_rest(r, rest) == IF r.err # "" THEN r ELSE Ok(r.val[1], rest)

parse_explicit(type, data) == finish(read_element(Named(type.n), data))

parse_struct_unfinished(name, data) ==
    fields_result(read_fields(FieldsOf(name), 1, data, <<>>, <<>>))

parse_struct(name, data) ==
    finish(fields_result(read_fields(FieldsOf(name), 1, data, <<>>, <<>>)))

parse_data(type, data) ==
    CASE type.k = "struct" -> parse_struct(type.n, data)
      [] type.k = "explicit" -> parse_explicit(type, data)
      [] type.k = "prim" /\ type.n \in {"u8", "u32", "u64"} -> parse_uint(WidthOf(type.n), data)
      [] type.k = "prim" /\ type.n = "bool" -> parse_bool(data)
      [] type.k = "prim" /\ type.n = "OctetString" -> parse_octets(data)
      [] type.k = "prim" /\ type.n = "ObjectIdentifier" -> parse_oid(data)
      [] type.k = "prim" /\ type.n = "IA5String" -> parse_ia5(data)
      [] type.k = "prim" /\ type.n = "GeneralizedTime" -> parse_time(data)

first_variant(tag) ==
    IF \E i \in 1..Len(GeneralName) : can_parse(GeneralName[i].type, tag)
    THEN CHOOSE i \in 1..Len(GeneralName) :
           /\ can_parse(GeneralName[i].type, tag)
           /\ \A j \in 1..(i - 1) : ~can_parse(GeneralName[j].type, tag)
    ELSE 0

variant_of(variant, r, rest) ==
    IF r.err # "" THEN r ELSE Ok([alt |-> variant.variant, v |-> r.val[1]], rest)

choice_of(data, t) ==
    IF t.err # "" THEN Err(t.err)
    ELSE IF first_variant(t.tag) = 0 THEN Err("UnexpectedTag")
    ELSE variant_of(GeneralName[first_variant(t.tag)],
                    finish(read_element(GeneralName[first_variant(t.tag)].type,
                                        Take(data, Len(data) - Len(t.rest)))),
                    t.rest)

read_choice(data) == choice_of(data, read_tlv(data))

element_of(type, t) ==
    IF t.err # "" THEN Err(t.err)
    ELSE IF type.k = "tlv" THEN Ok(Tlv(t.tag, t.data), t.rest)
    ELSE IF ~can_parse(type, t.tag) THEN Err("UnexpectedTag")
    ELSE with_rest(parse_data(type, t.data), t.rest)

read_element(type, data) ==
    IF type.k = "choice" THEN read_choice(data) ELSE element_of(type, read_tlv(data))

some(r) == IF r.err # "" THEN r ELSE Ok(r.val, r.rest)

skipped(data, t) == Ok(<<>>, IF data # <<>> /\ t.err = "" THEN t.rest ELSE data)

read_optional_consuming(type, data) ==
    IF data # <<>> /\ can_parse(type, data[1])
    THEN some(read_element(type, data))
    ELSE skipped(data, read_tlv(data))

read_optional(type, data) ==
    IF data # <<>> /\ can_parse(type, data[1])
    THEN some(read_element(type, data))
    ELSE Ok(<<>>, data)

defaulted(d, rest) == IF d.err # "" THEN Err(d.err) ELSE Ok(d.val[1], rest)

with_default(r, dflt) ==
    IF r.err # "" THEN r ELSE defaulted(from_optional_default(r.val[1], dflt), r.rest)

read_field(f, data) ==
    CASE f.mode = "required" -> read_element(f.type, data)
      [] f.mode = "optional" -> read_optional(f.type, data)
      [] f.mode = "default" -> with_default(read_optional(f.type, data), f.dflt)

Step(f, data, r) ==
    [name |-> f.name, mode |-> f.mode,
     peek |-> IF data = <<>> THEN <<>> ELSE <<data[1]>>,
     match |-> data # <<>> /\ can_parse(f.type, data[1]),
     before |-> data, after |-> r.rest, err |-> r.err, val |-> r.val]

after_field(fields, i, acc, r, trace) ==
    IF r.err # "" THEN [err |-> r.err, val |-> <<>>, rest |-> <<>>, steps |-> trace]
    ELSE read_fields(fields, i + 1, r.rest, acc @@ (fields[i].name :> r.val[1]), trace)

field_step(fields, i, data, acc, trace, r) ==
    after_field(fields, i, acc, r, Append(trace, Step(fields[i], data, r)))

read_fields(fields, i, data, acc, trace) ==
    IF i > Len(fields) THEN [err |-> "", val |-> <<acc>>, rest |-> data, steps |-> trace]
    ELSE field_step(fields, i, data, acc, trace, read_field(fields[i], data))

(***************************************************************************)
(* asn1::parse_single: one element, and nothing after it.                  *)
(***************************************************************************)
parse_single_unfinished(type, data) == read_element(type, data)

parse_single(type, data) == finish(read_element(type, data))

(***************************************************************************)
(* The writer.  An absent Option and a DEFAULT field equal to its default  *)
(* write nothing; a struct writes its fields in declaration order.         *)
(***************************************************************************)
RECURSIVE write_element(_, _)
RECURSIVE write_data(_, _)
RECURSIVE write_field(_, _)
RECURSIVE write_fields(_, _, _)

VariantType(alt) ==
    LET i == CHOOSE j \in 1..Len(GeneralName) : GeneralName[j].variant = alt
    IN  GeneralName[i].type

write_field(f, v) ==
    CASE f.mode = "required" -> write_element(f.type, v)
      [] f.mode = "optional" -> IF v = <<>> THEN <<>> ELSE write_element(f.type, v[1])
      [] f.mode = "default" -> IF v = f.dflt THEN <<>> ELSE write_element(f.type, v)

write_fields(fields, i, v) ==
    IF i > Len(fields) THEN <<>>
    ELSE write_field(fields[i], v[fields[i].name]) \o write_fields(fields, i + 1, v)

write_data(type, v) ==
    CASE type.k = "struct" -> write_fields(FieldsOf(type.n), 1, v)
      [] type.k = "explicit" -> write_element(Named(type.n), v)
      [] type.k = "prim" /\ type.n \in {"u8", "u32", "u64"} -> write_uint(v)
      [] type.k = "prim" /\ type.n = "bool" -> write_bool(v)
      [] type.k = "prim" /\ type.n = "GeneralizedTime" -> write_time(v)
      [] type.k = "prim" /\ type.n \in {"OctetString", "ObjectIdentifier", "IA5String"} -> v

write_element(type, v) ==
    CASE type.k = "tlv" -> write_tlv(TlvTag(v), TlvData(v))
      [] type.k = "choice" -> write_element(VariantType(v.alt), v.v)
      [] OTHER -> write_tlv(TagOf(type), write_data(type, v))

write_single(type, v) == write_element(type, v)

(***************************************************************************)
(* The values explored.  Values(name) are protocol values of the schema    *)
(* type; all of them are values of the Rust type except a TSTInfo whose    *)
(* serial number needs more than 64 bits, which only a peer can send.      *)
(***************************************************************************)
Opt(S) == {<<>>} \cup {<<v>> : v \in S}

Oids == {<<42, 3>>, <<96, 134, 72, 1, 101, 3, 4, 2, 1>>}

Tlvs == {Tlv(5, <<>>), Tlv(4, <<1>>)}

AlgorithmIdentifierValues == [algorithm : Oids, parameters : Tlvs]

MessageImprintValues ==
    [hash_algorithm : {[algorithm |-> <<96, 134, 72, 1, 101, 3, 4, 2, 1>>,
                        parameters |-> Tlv(5, <<>>)]},
     hashed_message : {<<171, 205>>, <<>>}]

TimeStampReqValues ==
    [version : {<<1>>}, message_imprint : MessageImprintValues,
     req_policy : Opt({<<42, 3>>}),
     nonce : Opt({<<7>>, <<255, 255, 255, 255, 255, 255, 255, 255>>}),
     cert_req : BOOLEAN]

PKIStatusInfoValues ==
    [status : {<<0>>, <<2>>}, status_string : Opt({<<110, 111>>}), fail_info : Opt({<<4>>})]

ContentInfoValues ==
    [content_type : {<<42, 134, 72, 134, 247, 13, 1, 7, 2>>}, content : Tlvs]

TimeStampRespValues ==
    [status : PKIStatusInfoValues,
     time_stamp_token : Opt({[content_type |-> <<42, 134, 72, 134, 247, 13, 1, 7, 2>>,
                              content |-> Tlv(5, <<>>)]})]

AccuracyValues == [seconds : Opt({<<1>>}), millis : Opt({<<2>>}), micros : Opt({<<3>>})]

GeneralNameValues ==
    {[alt |-> "OtherName", v |-> Tlv(12, <<65>>)],
     [alt |-> "DNSName", v |-> <<97, 46, 98>>],
     [alt |-> "UniformResourceIdentifier", v |-> <<117>>],
     [alt |-> "IPAddress", v |-> <<127, 0, 0, 1>>],
     [alt |-> "RegisteredID", v |-> <<42, 3>>]}

TSTInfoBase ==
    [version : {<<1>>}, policy : Opt({<<42, 3>>}),
     message_imprint : {[hash_algorithm |-> [algorithm |-> <<96, 134, 72, 1, 101, 3, 4, 2, 1>>,
                                              parameters |-> Tlv(5, <<>>)],
                         hashed_message |-> <<171, 205>>]},
     serial_number : {<<1>>},
     gen_time : {[year |-> 2020, month |-> 2, day |-> 29,
                  hour |-> 23, minute |-> 59, second |-> 58]},
     accuracy : Opt({a \in AccuracyValues :
                       a.millis # <<>> /\ (a.seconds = <<>>) = (a.micros = <<>>)}),
     ordering : BOOLEAN,
     nonce : Opt({<<7>>}),
     tsa : Opt({g \in GeneralNameValues : g.alt = "DNSName"}),
     extensions : Opt({Tlv(48, <<>>)})]

TSTInfoValues ==
    TSTInfoBase \cup
    {[v EXCEPT !.serial_number = s] :
        v \in {b \in TSTInfoBase : b.accuracy = <<>> /\ b.nonce = <<>> /\ b.tsa = <<>>},
        s \in {<<255, 255, 255, 255, 255, 255, 255, 255>>, <<1, 0, 0, 0, 0, 0, 0, 0, 0>>}}

Values(name) ==
    CASE name = "TimeStampReq" -> TimeStampReqValues
      [] name = "MessageImprint" -> MessageImprintValues
      [] name = "AlgorithmIdentifier" -> AlgorithmIdentifierValues
      [] name = "TimeStampResp" -> TimeStampRespValues
      [] name = "PKIStatusInfo" -> PKIStatusInfoValues
      [] name = "ContentInfo" -> ContentInfoValues
      [] name = "TSTInfo" -> TSTInfoValues
      [] name = "Accuracy" -> AccuracyValues
      [] name = "GeneralName" -> GeneralNameValues

SchemaTypes == StructNames \cup {"GeneralName"}

InMemory(name, v) == name = "TSTInfo" => Len(v.serial_number) <= WidthOf("u64")

(***************************************************************************)
(* Buffers handed to parse_single: the encoding of a value, or that        *)
(* encoding followed by extra bytes, with a child inserted, with two       *)
(* adjacent children of different tags exchanged, or with one byte         *)
(* replaced.                                                               *)
(***************************************************************************)
RECURSIVE Children(_)
Children(data) ==
    LET t == read_tlv(data)
    IN  IF data = <<>> \/ t.err # "" THEN <<>>
        ELSE <<Take(data, Len(data) - Len(t.rest))>> \o Children(t.rest)

RECURSIVE Concat(_)
Concat(ss) == IF ss = <<>> THEN <<>> ELSE Head(ss) \o Concat(Tail(ss))

TrailingBytes == {0, 48}

RECURSIVE ByteSeqs(_)
ByteSeqs(n) ==
    IF n = 0 THEN {<<>>}
    ELSE {Append(s, b) : s \in ByteSeqs(n - 1), b \in TrailingBytes}

Trailers == UNION {ByteSeqs(n) : n \in 1..MaxTrailing}

ExtraChildren == {<<160, 2, 5, 0>>, <<1, 1, 0>>, <<2, 1, 9>>}

CorruptBytes == {0, 1}

ContextTags == {160 + n : n \in 0..MaxContextTag}

Origin(kind, at, bytes) == [kind |-> kind, at |-> at, bytes |-> bytes]

NoResult == [err |-> "none", val |-> <<>>, left |-> <<>>]

Inserted(data, j, child) ==
    LET t == read_tlv(data)
        cs == Children(t.data)
    IN  write_tlv(t.tag, Concat(Take(cs, j)) \o child \o Concat(Drop(cs, j)))

Reordered(data, j) ==
    LET t == read_tlv(data)
        cs == Children(t.data)
    IN  write_tlv(t.tag, Concat(Take(cs, j - 1)) \o cs[j + 1] \o cs[j] \o Concat(Drop(cs, j + 1)))

Init ==
    /\ ty \in SchemaTypes
    /\ x \in Values(ty)
    /\ buf = <<>>
    /\ origin = Origin("none", 0, <<>>)
    /\ pc = "start"
    /\ res = NoResult
    /\ steps = <<>>
    /\ out = <<>>

Encode ==
    /\ pc = "start"
    /\ InMemory(ty, x)
    /\ buf' = write_single(Named(ty), x)
    /\ origin' = Origin("encoded", 0, <<>>)
    /\ pc' = "have_bytes"
    /\ UNCHANGED <<ty, x, res, steps, out>>

ReadFile ==
    /\ pc = "start"
    /\ buf' = write_single(Named(ty), x)
    /\ origin' = Origin("file", 0, <<>>)
    /\ pc' = "have_bytes"
    /\ UNCHANGED <<ty, x, res, steps, out>>

ReadTrailing ==
    /\ pc = "start"
    /\ \E extra \in Trailers :
         /\ buf' = write_single(Named(ty), x) \o extra
         /\ origin' = Origin("trailing", 0, extra)
    /\ pc' = "have_bytes"
    /\ UNCHANGED <<ty, x, res, steps, out>>

ReadInserted ==
    /\ pc = "start"
    /\ ty \in StructNames
    /\ LET enc == write_single(Named(ty), x)
           n == Len(Children(read_tlv(enc).data))
       IN  \E j \in 0..n, child \in ExtraChildren :
             /\ buf' = Inserted(enc, j, child)
             /\ origin' = Origin("inserted", n - j, child)
    /\ pc' = "have_bytes"
    /\ UNCHANGED <<ty, x, res, steps, out>>

ReadReordered ==
    /\ pc = "start"
    /\ ty \in StructNames
    /\ LET enc == write_single(Named(ty), x)
           cs == Children(read_tlv(enc).data)
       IN  \E j \in 1..(Len(cs) - 1) :
             /\ cs[j][1] # cs[j + 1][1]
             /\ buf' = Reordered(enc, j)
             /\ origin' = Origin("reordered", j, <<>>)
    /\ pc' = "have_bytes"
    /\ UNCHANGED <<ty, x, res, steps, out>>

ReadCorrupted ==
    /\ pc = "start"
    /\ LET enc == write_single(Named(ty), x)
       IN  \E i \in 1..Len(enc), b \in CorruptBytes :
             /\ enc[i] # b
             /\ buf' = [enc EXCEPT ![i] = b]
             /\ origin' = Origin("corrupted", i, <<b>>)
    /\ pc' = "have_bytes"
    /\ UNCHANGED <<ty, x, res, steps, out>>

ReadRetagged ==
    /\ pc = "start"
    /\ LET enc == write_single(Named(ty), x)
       IN  \E tag \in ContextTags :
             /\ enc[1] # tag
             /\ buf' = [enc EXCEPT ![1] = tag]
             /\ origin' = Origin("retagged", tag - 160, <<>>)
    /\ pc' = "have_bytes"
    /\ UNCHANGED <<ty, x, res, steps, out>>

(***************************************************************************)
(* main: parse_single(&bytes).  Traversal is the walk over the fields of   *)
(* the top-level struct that this parse makes.                             *)
(***************************************************************************)
NoTraversal == [err |-> "", val |-> <<>>, rest |-> <<>>, steps |-> <<>>]

traversal_of(name, t) ==
    IF name \in StructNames /\ t.err = "" /\ t.tag = 48
    THEN read_fields(FieldsOf(name), 1, t.data, <<>>, <<>>)
    ELSE NoTraversal

Traversal(name, data) == traversal_of(name, read_tlv(data))

Decoding(r, w) ==
    /\ res' = [err |-> r.err, val |-> r.val, left |-> w.rest]
    /\ steps' = w.steps

Decode ==
    /\ pc = "have_bytes"
    /\ Decoding(parse_single(Named(ty), buf), Traversal(ty, buf))
    /\ pc' = "decoded"
    /\ UNCHANGED <<ty, x, buf, origin, out>>

Reencode ==
    /\ pc = "decoded"
    /\ res.err = ""
    /\ out' = write_single(Named(ty), res.val[1])
    /\ pc' = "reencoded"
    /\ UNCHANGED <<ty, x, buf, origin, res, steps>>

Next ==
    \/ Encode
    \/ ReadFile
    \/ ReadTrailing
    \/ ReadInserted
    \/ ReadReordered
    \/ ReadCorrupted
    \/ ReadRetagged
    \/ Decode
    \/ Reencode

Spec == Init /\ [][Next]_vars

(***************************************************************************)
(* Properties.                                                             *)
(***************************************************************************)
Decoded == pc = "decoded"

FromValue == origin.kind \in {"encoded", "file"}

TopTags(data) ==
    LET cs == Children(read_tlv(data).data)
    IN  {cs[i][1] : i \in 1..Len(cs)}

(* C1: decoding a TimeStampResp whose status is Rejection (2) and whose    *)
(* time_stamp_token is present fails with SemanticMismatch; no successful  *)
(* decode returns status 2 together with a present token.                  *)
C1_RejectionWithTokenFails ==
    (Decoded /\ ty = "TimeStampResp") =>
        /\ (FromValue /\ x.status.status = <<2>> /\ x.time_stamp_token # <<>>)
              => res.err = "SemanticMismatch"
        /\ res.err = ""
              => ~(res.val[1].status.status = <<2>> /\ res.val[1].time_stamp_token # <<>>)

(* C2: round trip: for every value x of every schema type, with every      *)
(* combination of present and absent OPTIONAL fields and of default and    *)
(* non-default DEFAULT fields, decode(encode(x)) succeeds and equals x.    *)
C2_RoundTrip ==
    (Decoded /\ origin.kind = "encoded") => (res.err = "" /\ res.val = <<x>>)

(* C3: each of the eight presence combinations of Accuracy's seconds,      *)
(* millis and micros decodes back to the same combination with the same    *)
(* values: no field's value is decoded into another field.                 *)
C3_AccuracyFieldsIndependent ==
    (Decoded /\ ty = "Accuracy" /\ origin.kind = "encoded") =>
        /\ res.err = ""
        /\ res.val[1].seconds = x.seconds
        /\ res.val[1].millis = x.millis
        /\ res.val[1].micros = x.micros

(* C4: a TSTInfo whose serialNumber is a minimally encoded integer of 2^64 *)
(* or more decodes successfully, and serial_number is that integer.        *)
C4_WideSerialNumber ==
    (Decoded /\ ty = "TSTInfo" /\ origin.kind = "file"
       /\ Len(x.serial_number) > WidthOf("u64")) =>
        (res.err = "" /\ res.val[1].serial_number = x.serial_number)

C6_OmittedDefaultIsFalse ==
    (Decoded /\ FromValue /\ InMemory(ty, x) /\ 1 \notin TopTags(buf)) =>
        /\ ty = "TimeStampReq" => (res.err = "" /\ res.val[1].cert_req = FALSE)
        /\ ty = "TSTInfo" => (res.err = "" /\ res.val[1].ordering = FALSE)

C6_Witness ==
    /\ Decoded /\ FromValue /\ ty = "TimeStampReq"
    /\ x.req_policy # <<>> /\ x.nonce # <<>>
    /\ 1 \notin TopTags(buf)
    /\ res.err = "" /\ res.val[1].cert_req = FALSE

AltOfTag(n) ==
    CASE n = 0 -> "OtherName"
      [] n = 2 -> "DNSName"
      [] n = 6 -> "UniformResourceIdentifier"
      [] n = 7 -> "IPAddress"
      [] n = 8 -> "RegisteredID"
      [] OTHER -> "none"

(* C7: a GeneralName is decoded as the alternative its context-specific   *)
(* tag number names: 0 OtherName, 2 DNSName, 6 UniformResourceIdentifier,  *)
(* 7 IPAddress, 8 RegisteredID, one alternative per decoded value; with    *)
(* any other context tag number the decode fails with the error of a tag   *)
(* that matches no alternative (the reader's UnexpectedTag kind).          *)
C7_ChoiceByTag ==
    (Decoded /\ ty = "GeneralName" /\ origin.kind \in {"encoded", "file", "retagged"}) =>
        LET n == buf[1] - 160 IN
        /\ res.err = "" => res.val[1].alt = AltOfTag(n)
        /\ FromValue => (res.err = "" /\ res.val[1].alt = x.alt)
        /\ AltOfTag(n) = "none" => (res.err = "UnexpectedTag" /\ res.val = <<>>)

C7_Witness ==
    /\ Decoded /\ ty = "GeneralName" /\ origin.kind = "retagged"
    /\ \/ origin.at = 9 /\ res.err = "UnexpectedTag"
       \/ origin.at = 6 /\ x.alt = "DNSName" /\ res.err = ""
            /\ res.val[1].alt = "UniformResourceIdentifier"

(* C8: parse_single accepts a buffer only if its first element is the      *)
(* whole buffer: a valid encoding followed by one or more extra bytes is   *)
(* refused with the trailing-data error (the reader's ExtraData kind) and  *)
(* no value is returned.                                                   *)
C8_TrailingData ==
    Decoded =>
        /\ (origin.kind = "trailing"
              /\ parse_single(Named(ty), Take(buf, Len(buf) - Len(origin.bytes))).err = "")
             => (res.err = "ExtraData" /\ res.val = <<>>)
        /\ res.err = "" => (read_tlv(buf).err = "" /\ read_tlv(buf).rest = <<>>)

C8_Witness ==
    /\ Decoded /\ origin.kind = "trailing" /\ Len(origin.bytes) = MaxTrailing
    /\ ty = "TimeStampReq" /\ res.err = "ExtraData"

(* C9: the fields of a SEQUENCE are read in declaration order.  A field    *)
(* whose tag matches the next child consumes it; an OPTIONAL or DEFAULT    *)
(* field whose tag does not match is left absent (or gets its default)     *)
(* and consumes nothing, so the same child is offered to the next field; a *)
(* required field whose tag does not match a well-formed next child fails  *)
(* with UnexpectedTag.  Children of different tags exchanged against the   *)
(* declared order are never accepted.                                      *)
C9_DeclaredOrder ==
    (Decoded /\ ty \in StructNames) =>
        /\ Len(steps) <= Len(FieldsOf(ty))
        /\ \A i \in 1..Len(steps) :
             LET s == steps[i] IN
             /\ s.name = FieldsOf(ty)[i].name
             /\ i > 1 => (steps[i - 1].err = "" /\ s.before = steps[i - 1].after)
             /\ (s.match /\ s.err = "") =>
                    (s.after = read_tlv(s.before).rest /\ Len(s.after) < Len(s.before))
             /\ (~s.match /\ s.mode = "optional") =>
                    (s.err = "" /\ s.after = s.before /\ s.val = << <<>> >>)
             /\ (~s.match /\ s.mode = "default") =>
                    (s.err = "" /\ s.after = s.before /\ s.val = <<FALSE>>)
             /\ (~s.match /\ s.mode = "required" /\ read_tlv(s.before).err = "") =>
                    (s.err = "UnexpectedTag" /\ res.err = "UnexpectedTag")
             /\ s.err # "" => (i = Len(steps) /\ res.err = s.err)
        /\ origin.kind = "reordered" => res.err # ""

C9_Witness ==
    /\ Decoded /\ origin.kind = "reordered" /\ ty = "TimeStampReq"
    /\ x.req_policy # <<>> /\ x.nonce # <<>>
    /\ \E i \in 1..Len(steps), j \in 1..Len(steps) :
         /\ i < j
         /\ steps[i].name = "req_policy" /\ ~steps[i].match /\ steps[i].peek = <<2>>
         /\ steps[j].name = "nonce" /\ steps[j].match /\ steps[j].before = steps[i].before
    /\ res.err = "ExtraData"

(* C10: bytes left in a SEQUENCE after its last declared field make the    *)
(* decode fail.  A TimeStampReq with a [0] element after cert_req is       *)
(* refused (it declares no extensions field); a TSTInfo with an explicit   *)
(* [1] extensions element as its last child is accepted.                   *)
C10_NoExtraChildren ==
    Decoded =>
        /\ res.left # <<>> => (res.err = "ExtraData" /\ res.val = <<>>)
        /\ (ty = "TimeStampReq" /\ origin.kind = "inserted" /\ origin.at = 0
              /\ origin.bytes[1] = 160) => res.err = "ExtraData"
        /\ (ty = "TSTInfo" /\ origin.kind = "encoded" /\ x.extensions # <<>>) =>
              (res.err = "" /\ res.val[1].extensions = x.extensions /\ res.left = <<>>)

C10_Witness ==
    /\ Decoded /\ ty = "TimeStampReq" /\ origin.kind = "inserted" /\ origin.at = 0
    /\ origin.bytes[1] = 160 /\ x.cert_req
    /\ res.left = origin.bytes /\ res.err = "ExtraData"

=============================================================================
